---- MODULE Spec2Model ----
(***************************************************************************)
(* Model of silx/gui/plot/items/curve.py: the histogram helpers            *)
(* _computeEdges and _getHistogramValue.                                   *)
(*                                                                         *)
(* Numbers.  Every numeric value is held in fixed point as a count of      *)
(* quarters: the integer k stands for k/4.  An array of integer dtype      *)
(* only holds multiples of 4; the float inputs are multiples of 1/2, so    *)
(* that the division by 2.0 of _computeEdges is exact (as it is in IEEE    *)
(* double arithmetic for these small dyadic values).                       *)
(*                                                                         *)
(* Arrays.  A numpy array is a record [dt, v]: dt its dtype ("int" or      *)
(* "float"), v the sequence of its values.  Unbound is a name that has     *)
(* not been assigned yet.                                                  *)
(*                                                                         *)
(* The code compares the mode with `is`; the modes are interned string     *)
(* literals, for which identity is equality.  Assertions are enabled.      *)
(***************************************************************************)
EXTENDS Integers, Sequences, FiniteSets, TLC

\* ------------------------------------------------------------------ bounds
\* longest x and y drawn from the value sets
MaxLen == 3
\* x values are 0..MaxX (integer dtype) and 0/2..MaxX/2 (float dtype)
MaxX == 2
\* y values are 1..MaxY (integer dtype) and 1/2..MaxY/2 (float dtype)
MaxY == 1

\* ------------------------------------------------------------------ values
IntVal(k) == 4 * k
HalfVal(k) == 2 * k

Arr(dt, v) == [dt |-> dt, v |-> v]
Unbound == [dt |-> "unbound", v |-> <<>>]

SeqsUpTo(S, n) == UNION {[1..k -> S] : k \in 0..n}

XArrays ==
    {Arr("int", v) : v \in SeqsUpTo({IntVal(k) : k \in 0..MaxX}, MaxLen)}
    \cup {Arr("float", v) : v \in SeqsUpTo({HalfVal(k) : k \in 0..MaxX}, MaxLen)}

YArrays ==
    {Arr("int", v) : v \in SeqsUpTo({IntVal(k) : k \in 1..MaxY}, MaxLen)}
    \cup {Arr("float", v) : v \in SeqsUpTo({HalfVal(k) : k \in 1..MaxY}, MaxLen)}

\* the histogram types a caller may pass: the three legal ones, an illegal
\* string and None
HistogramTypes == {"left", "right", "center", "top", "None"}

\* line 97: the tuple the mode is asserted to be in
\* (variant: the tuple of setHistogramType, which also admits None)
ValidTypesWithNone == {"left", "right", "center", "None"}
ValidTypes == {"left", "right", "center"}

\* contents of a numpy.empty buffer before it is written
Garbage == {IntVal(-9), IntVal(9)}

\* the worked examples of the documentation
Scenario2X == Arr("int", <<IntVal(0), IntVal(1), IntVal(2)>>)
Scenario2Y == Arr("int", <<IntVal(5), IntVal(6)>>)
Scenario3X == Arr("int", <<IntVal(0), IntVal(1), IntVal(2), IntVal(3)>>)
Scenario3Y == Arr("int", <<IntVal(1), IntVal(2), IntVal(3)>>)

\* ------------------------------------------------------------------ numpy
\* value conversion of an assignment into a buffer of dtype `to` (numpy
\* casts unsafely on item assignment: float -> int truncates toward zero)
CastTo(to, val) ==
    IF to = "int"
    THEN IF val >= 0 THEN (val \div 4) * 4 ELSE 0 - (((0 - val) \div 4) * 4)
    ELSE val

\* s[:-1], s[1:]
AllButLast(s) == IF Len(s) = 0 THEN <<>> ELSE SubSeq(s, 1, Len(s) - 1)
AllButFirst(s) == IF Len(s) = 0 THEN <<>> ELSE SubSeq(s, 2, Len(s))

\* 1-based positions selected by [:-1:2] and [1::2] in a buffer of length n
EvenSlots(n) == {k \in 1..(n - 1) : k % 2 = 1}
OddSlots(n) == {k \in 1..n : k % 2 = 0}

\* rank of position k in a set of positions (1-based)
Rank(slots, k) == Cardinality({j \in slots : j <= k})

\* buf[slots] = src: the shapes must agree, or src has one element that is
\* broadcast to every slot
CanAssign(slots, src) ==
    \/ Len(src.v) = Cardinality(slots)
    \/ Len(src.v) = 1

SetSlice(buf, slots, src) ==
    Arr(buf.dt,
        [k \in 1..Len(buf.v) |->
            IF k \in slots
            THEN CastTo(buf.dt,
                        IF Len(src.v) = Cardinality(slots)
                        THEN src.v[Rank(slots, k)] ELSE src.v[1])
            ELSE buf.v[k]])

\* ---------------------------------------------------------- _computeEdges
\* the result of a call: exc = "none" and the returned array, or the
\* exception that left the function
Ok(a) == [exc |-> "none", dt |-> a.dt, v |-> a.v]
Raise(e) == [exc |-> e, dt |-> "unbound", v |-> <<>>]

\* variant of lines 62-66: the unit width is used whatever the length of x
LeftBranchUnitWidth(x, edges) ==
    IF Len(x.v) = 0 THEN Raise("IndexError")
    ELSE Ok(Arr(x.dt, <<x.v[1] - IntVal(1)>> \o edges.v))

\* lines 62-66
LeftBranch(x, edges) ==
    IF Len(x.v) = 0 THEN Raise("IndexError")
    ELSE LET width == IF Len(x.v) > 1 THEN x.v[2] - x.v[1] ELSE IntVal(1)
         IN  Ok(Arr(x.dt, <<x.v[1] - width>> \o edges.v))

\* variant of lines 72-76: the width is taken from the first gap
RightBranchFirstGap(x, edges) ==
    IF Len(x.v) = 0 THEN Raise("IndexError")
    ELSE LET n == Len(x.v)
             width == IF n > 1 THEN x.v[2] - x.v[1] ELSE IntVal(1)
         IN  Ok(Arr(edges.dt, Append(edges.v, x.v[n] + width)))

\* lines 72-76
RightBranch(x, edges) ==
    IF Len(x.v) = 0 THEN Raise("IndexError")
    ELSE LET n == Len(x.v)
             width == IF n > 1 THEN x.v[n] - x.v[n - 1] ELSE IntVal(1)
         IN  Ok(Arr(edges.dt, Append(edges.v, x.v[n] + width)))

\* variant of lines 69-71: the last edge is not shifted (no gap appended
\* for it)
CenterShiftLastUnshifted(r) ==
    LET gaps == [i \in 1..(Len(r.v) - 1) |-> (r.v[i + 1] - r.v[i]) \div 2]
        widths == Append(gaps, 0)
    IN  Arr("float", [i \in 1..Len(r.v) |-> r.v[i] - widths[i]])

\* lines 69-71, applied to the right-aligned edges r
CenterShift(r) ==
    LET gaps == [i \in 1..(Len(r.v) - 1) |-> (r.v[i + 1] - r.v[i]) \div 2]
        widths == Append(gaps, gaps[Len(gaps)])
    IN  Arr("float", [i \in 1..Len(r.v) |-> r.v[i] - widths[i]])

RECURSIVE computeEdges(_, _)

\* variant of lines 61-78: the 'right' branch also runs after the 'center'
\* branch
computeEdgesFallThrough(x, histogramType) ==
    LET e0 == Ok(x)
        e1 == IF histogramType = "left" THEN LeftBranch(x, e0) ELSE e0
        e2 == IF e1.exc = "none" /\ histogramType = "center"
              THEN LET r == computeEdges(Arr(e1.dt, e1.v), "right")
                   IN  IF r.exc = "none" THEN Ok(CenterShift(r)) ELSE r
              ELSE e1
        e3 == IF e2.exc = "none" /\ histogramType \in {"right", "center"}
              THEN RightBranch(x, e2) ELSE e2
    IN  e3

\* lines 61-78
computeEdges(x, histogramType) ==
    LET e0 == Ok(x)
        e1 == IF histogramType = "left" THEN LeftBranch(x, e0) ELSE e0
        e2 == IF e1.exc = "none" /\ histogramType = "center"
              THEN LET r == computeEdges(Arr(e1.dt, e1.v), "right")
                   IN  IF r.exc = "none" THEN Ok(CenterShift(r)) ELSE r
              ELSE e1
        e3 == IF e2.exc = "none" /\ histogramType = "right"
              THEN RightBranch(x, e2) ELSE e2
    IN  e3

\* ----------------------------------------------------- _getHistogramValue
VARIABLES x, y, histogramType, pc, exc, edges, resx, resy

\* the same two functions run on a heap of array objects (see below)
VARIABLES heap, stack, ret, hexc, orig, touched

\* a _ProfileCrossROI, its two line ROIs and the ROI manager (see below)
VARIABLES roiMgr, removals, asked, lines, hlineRef, vlineRef, crossPos,
          rstack, rexc, lastOp, lineRemovedRuns

histVars == <<x, y, histogramType, pc, exc, edges, resx, resy>>
heapVars == <<heap, stack, ret, hexc, orig, touched>>
roiVars == <<roiMgr, removals, asked, lines, hlineRef, vlineRef, crossPos,
             rstack, rexc, lastOp, lineRemovedRuns>>

\* a Curve item and the last call made on it (see below)
VARIABLES curve, lastCall, updated, invalidated, cexc

curveVars == <<curve, lastCall, updated, invalidated, cexc>>

vars == <<histVars, heapVars, roiVars, curveVars>>

\* the parts of the state a specification does not exercise stay idle
HistIdle ==
    /\ x = Unbound /\ y = Unbound /\ histogramType = "None"
    /\ pc = "idle" /\ exc = "none"
    /\ edges = Unbound /\ resx = Unbound /\ resy = Unbound

HeapIdle ==
    /\ heap = <<>> /\ stack = <<>> /\ ret = <<>>
    /\ hexc = "none" /\ orig = <<>> /\ touched = FALSE

RoiIdle ==
    /\ roiMgr = {} /\ removals = <<>> /\ asked = <<>> /\ lines = <<>>
    /\ hlineRef = "None" /\ vlineRef = "None" /\ crossPos = <<0, 0>>
    /\ rstack = <<>> /\ rexc = "none" /\ lastOp = <<>> /\ lineRemovedRuns = 0

CurveIdle ==
    /\ curve = <<>> /\ lastCall = <<>> /\ updated = 0 /\ invalidated = 0
    /\ cexc = "none"

notHist == <<heapVars, roiVars, curveVars>>
notHeap == <<histVars, roiVars, curveVars>>
notRoi == <<histVars, heapVars, curveVars>>
notCurve == <<histVars, heapVars, roiVars>>

Init ==
    /\ \/ x \in XArrays /\ y \in YArrays
       \/ x = Scenario2X /\ y = Scenario2Y
       \/ x = Scenario3X /\ y = Scenario3Y
    /\ histogramType \in HistogramTypes
    /\ pc = "l97"
    /\ exc = "none"
    /\ edges = Unbound
    /\ resx = Unbound
    /\ resy = Unbound
    /\ HeapIdle
    /\ RoiIdle
    /\ CurveIdle

\* line 97
AssertType ==
    /\ pc = "l97"
    /\ IF histogramType \in ValidTypes
       THEN pc' = "l98" /\ exc' = exc
       ELSE pc' = "raised" /\ exc' = "AssertionError"
    /\ UNCHANGED <<x, y, histogramType, edges, resx, resy>>
    /\ UNCHANGED notHist

\* variant of line 98: the test is off by one in the other direction
UsesXAsEdgesShorter(xa, ya) == Len(xa.v) + 1 = Len(ya.v)

\* line 98
UsesXAsEdges(xa, ya) == Len(xa.v) = Len(ya.v) + 1

\* variant of lines 98-101: the edges are always computed
SelectEdgesAlwaysComputed(xa, ya, ht) == computeEdges(xa, ht)

\* lines 98-101: the edges the function works on
SelectEdges(xa, ya, ht) ==
    IF UsesXAsEdges(xa, ya) THEN Ok(xa) ELSE computeEdges(xa, ht)

GetEdges ==
    /\ pc = "l98"
    /\ LET e == SelectEdges(x, y, histogramType)
       IN  IF e.exc = "none"
           THEN pc' = "l102" /\ edges' = Arr(e.dt, e.v) /\ exc' = exc
           ELSE pc' = "raised" /\ exc' = e.exc /\ edges' = edges
    /\ UNCHANGED <<x, y, histogramType, resx, resy>>
    /\ UNCHANGED notHist

\* variant of line 102: one edge is accepted
EnoughEdgesNonEmpty(e) == Len(e.v) > 0

\* line 102
EnoughEdges(e) == Len(e.v) > 1

AssertEdges ==
    /\ pc = "l102"
    /\ IF EnoughEdges(edges)
       THEN pc' = "l104" /\ exc' = exc
       ELSE pc' = "raised" /\ exc' = "AssertionError"
    /\ UNCHANGED <<x, y, histogramType, edges, resx, resy>>
    /\ UNCHANGED notHist

\* lines 104-105: both buffers take the dtype of the edges
Empty(e, g) == Arr(e.dt, [k \in 1..((Len(e.v) - 1) * 2) |-> CastTo(e.dt, g)])
ResxBuffer(e, g) == Empty(e, g)
ResyBuffer(e, g) == Empty(e, g)

Allocate ==
    /\ pc = "l104"
    /\ \E g \in Garbage :
          /\ resx' = ResxBuffer(edges, g)
          /\ resy' = ResyBuffer(edges, g)
    /\ pc' = "l107"
    /\ UNCHANGED <<x, y, histogramType, exc, edges>>
    /\ UNCHANGED notHist

\* lines 107-108
FillX(buf, e) ==
    SetSlice(SetSlice(buf, EvenSlots(Len(buf.v)), Arr(e.dt, AllButLast(e.v))),
             OddSlots(Len(buf.v)), Arr(e.dt, AllButFirst(e.v)))

FillResx ==
    /\ pc = "l107"
    /\ resx' = FillX(resx, edges)
    /\ pc' = "l109"
    /\ UNCHANGED <<x, y, histogramType, exc, edges, resy>>
    /\ UNCHANGED notHist

\* lines 109-110
CanFillY(buf, ya) ==
    /\ CanAssign(EvenSlots(Len(buf.v)), ya)
    /\ CanAssign(OddSlots(Len(buf.v)), ya)

FillY(buf, ya) ==
    SetSlice(SetSlice(buf, EvenSlots(Len(buf.v)), ya), OddSlots(Len(buf.v)), ya)

FillResy ==
    /\ pc = "l109"
    /\ IF CanFillY(resy, y)
       THEN resy' = FillY(resy, y) /\ pc' = "l112" /\ exc' = exc
       ELSE resy' = resy /\ pc' = "raised" /\ exc' = "ValueError"
    /\ UNCHANGED <<x, y, histogramType, edges, resx>>
    /\ UNCHANGED notHist

\* lines 112-113
Return ==
    /\ pc = "l112"
    /\ IF Len(resx.v) = Len(resy.v)
       THEN pc' = "returned" /\ exc' = exc
       ELSE pc' = "raised" /\ exc' = "AssertionError"
    /\ UNCHANGED <<x, y, histogramType, edges, resx, resy>>
    /\ UNCHANGED notHist

Next ==
    \/ AssertType
    \/ GetEdges
    \/ AssertEdges
    \/ Allocate
    \/ FillResx
    \/ FillResy
    \/ Return

Spec == Init /\ [][Next]_vars

\* the whole call as a function of its arguments (g: what the fresh
\* buffers held); the composition of the steps above
getHistogramValue(xa, ya, ht, g) ==
    IF ht \notin ValidTypes THEN [exc |-> "AssertionError", resx |-> Unbound, resy |-> Unbound]
    ELSE LET e == SelectEdges(xa, ya, ht)
         IN  IF e.exc # "none" THEN [exc |-> e.exc, resx |-> Unbound, resy |-> Unbound]
             ELSE LET ea == Arr(e.dt, e.v)
                  IN  IF ~EnoughEdges(ea)
                      THEN [exc |-> "AssertionError", resx |-> Unbound, resy |-> Unbound]
                      ELSE IF ~CanFillY(ResyBuffer(ea, g), ya)
                      THEN [exc |-> "ValueError", resx |-> Unbound, resy |-> Unbound]
                      ELSE [exc |-> "none",
                            resx |-> FillX(ResxBuffer(ea, g), ea),
                            resy |-> FillY(ResyBuffer(ea, g), ya)]

TypeOK ==
    /\ pc \in {"l97", "l98", "l102", "l104", "l107", "l109", "l112", "returned", "raised"}
    /\ exc \in {"none", "AssertionError", "IndexError", "ValueError"}
    /\ (pc = "raised") = (exc # "none")

\* the call has left line 101 with edges computed by _computeEdges
EdgesComputed == ~UsesXAsEdges(x, y) /\ pc \notin {"l97", "l98"}

\* the state machine and the function agree on every finished call
StepsAgree ==
    pc \in {"returned", "raised"} =>
        \A g \in Garbage :
            getHistogramValue(x, y, histogramType, g) =
                [exc |-> exc,
                 resx |-> IF pc = "returned" THEN resx ELSE Unbound,
                 resy |-> IF pc = "returned" THEN resy ELSE Unbound]

\* ================================================================= claims

\* C1: for every valid input (a legal mode; edges E of length m >= 2, x
\* itself or computed from x; y of length m-1) the returned resx and resy
\* both have length 2*(m-1), and for every bin i: resx holds E[i] then
\* E[i+1], and resy holds y[i] twice.
C1_StairsHoldEdgesAndY ==
    (/\ pc = "returned"
     /\ histogramType \in {"left", "right", "center"}
     /\ Len(edges.v) >= 2
     /\ Len(y.v) = Len(edges.v) - 1)
    => /\ Len(resx.v) = 2 * (Len(edges.v) - 1)
       /\ Len(resy.v) = 2 * (Len(edges.v) - 1)
       /\ \A i \in 1..(Len(edges.v) - 1) :
             /\ resx.v[2 * i - 1] = edges.v[i]
             /\ resx.v[2 * i] = edges.v[i + 1]
             /\ resy.v[2 * i - 1] = y.v[i]
             /\ resy.v[2 * i] = y.v[i]

\* C2: for x of length n >= 1, _computeEdges(x, 'left') has length n+1: the
\* element x[0] - width (width = x[1] - x[0] when n > 1, else 1) followed by
\* the n values of x, unchanged and in order.
C2_LeftEdges ==
    (EdgesComputed /\ histogramType = "left" /\ Len(x.v) >= 1)
    => LET width == IF Len(x.v) > 1 THEN x.v[2] - x.v[1] ELSE 4
       IN  /\ Len(edges.v) = Len(x.v) + 1
           /\ edges.v[1] = x.v[1] - width
           /\ \A i \in 1..Len(x.v) : edges.v[i + 1] = x.v[i]

C2_Witness ==
    /\ EdgesComputed /\ histogramType = "left" /\ pc = "l102"
    /\ Len(x.v) = 3
    /\ x.v[2] - x.v[1] \notin {0, 4}
    /\ x.v[3] - x.v[2] # x.v[2] - x.v[1]

\* C3: for x of length n >= 1, _computeEdges(x, 'right') has length n+1: the
\* n values of x, unchanged and in order, followed by x[n-1] + width
\* (width = x[n-1] - x[n-2] when n > 1, else 1).
C3_RightEdges ==
    (EdgesComputed /\ histogramType = "right" /\ Len(x.v) >= 1)
    => LET n == Len(x.v)
           width == IF n > 1 THEN x.v[n] - x.v[n - 1] ELSE 4
       IN  /\ Len(edges.v) = n + 1
           /\ edges.v[n + 1] = x.v[n] + width
           /\ \A i \in 1..n : edges.v[i] = x.v[i]

C3_Witness ==
    /\ EdgesComputed /\ histogramType = "right" /\ pc = "l102"
    /\ Len(x.v) = 3
    /\ x.v[3] - x.v[2] \notin {0, 4}
    /\ x.v[3] - x.v[2] # x.v[2] - x.v[1]

\* C4: for x of length n >= 1, c = _computeEdges(x, 'center') has length n+1
\* and is built from r = _computeEdges(x, 'right'): c[i] = r[i] -
\* (r[i+1] - r[i])/2 for i < n, and the last edge reuses the last gap,
\* c[n] = r[n] - (r[n] - r[n-1])/2; the 'right' branch does not run again
\* on the result.
C4_CenterEdges ==
    (EdgesComputed /\ histogramType = "center" /\ Len(x.v) >= 1)
    => LET n == Len(x.v)
           r == computeEdges(x, "right").v
           c == edges.v
       IN  /\ Len(c) = n + 1
           /\ Len(r) = n + 1
           /\ \A i \in 1..n : 2 * c[i] = 2 * r[i] - (r[i + 1] - r[i])
           /\ 2 * c[n + 1] = 2 * r[n + 1] - (r[n + 1] - r[n])

C4_Witness ==
    /\ EdgesComputed /\ histogramType = "center" /\ pc = "l102"
    /\ Len(x.v) = 3
    /\ x.v[3] - x.v[2] # 0
    /\ x.v[3] - x.v[2] # x.v[2] - x.v[1]

\* C5 (as stated): for all x of length n >= 1, uniformly spaced or not, each
\* x[i] is the midpoint of its bin of c = _computeEdges(x, 'center'):
\* (c[i] + c[i+1])/2 = x[i].
C5_MidpointAlways ==
    (EdgesComputed /\ histogramType = "center" /\ Len(x.v) >= 1)
    => \A i \in 1..Len(x.v) : edges.v[i] + edges.v[i + 1] = 2 * x.v[i]

\* the gap after x[i] equals the gap that follows it (the gap after the
\* last x is the extrapolated one, a copy of the gap before it)
SameGapAfter(i) ==
    \/ i >= Len(x.v) - 1
    \/ x.v[i + 1] - x.v[i] = x.v[i + 2] - x.v[i + 1]

\* C5 (amended): x[i] is the midpoint of its bin of _computeEdges(x,
\* 'center') exactly for the i whose gap to x[i+1] equals the following gap,
\* hence for every i when x is uniformly spaced, and always for the last
\* two x.
C5_MidpointWhereUniform ==
    (EdgesComputed /\ histogramType = "center" /\ Len(x.v) >= 1)
    => \A i \in 1..Len(x.v) :
          (edges.v[i] + edges.v[i + 1] = 2 * x.v[i]) <=> SameGapAfter(i)

C5_Witness ==
    /\ EdgesComputed /\ histogramType = "center" /\ pc = "l102"
    /\ Len(x.v) = 3
    /\ x.v[2] - x.v[1] # x.v[3] - x.v[2]
    /\ edges.v[1] + edges.v[2] # 2 * x.v[1]
    /\ edges.v[2] + edges.v[3] = 2 * x.v[2]
    /\ edges.v[3] + edges.v[4] = 2 * x.v[3]

\* C6: when len(x) = len(y) + 1 the edges are x itself, _computeEdges is not
\* used, and the call gives the same outcome in the modes 'left', 'center'
\* and 'right'; x=[0,1,2,3], y=[1,2,3] gives resx=[0,1,1,2,2,3] and
\* resy=[1,1,2,2,3,3].
C6_SuppliedEdgesIgnoreMode ==
    (/\ Len(x.v) = Len(y.v) + 1
     /\ histogramType \in {"left", "right", "center"}
     /\ pc \in {"returned", "raised"})
    => /\ \A m \in {"left", "right", "center"} : \A g \in Garbage :
             getHistogramValue(x, y, m, g) =
                 [exc |-> exc,
                  resx |-> IF pc = "returned" THEN resx ELSE Unbound,
                  resy |-> IF pc = "returned" THEN resy ELSE Unbound]
       /\ Len(x.v) >= 2 => pc = "returned" /\ edges = x
       /\ (x = Scenario3X /\ y = Scenario3Y)
          => /\ resx = Arr("int", <<0, 4, 4, 8, 8, 12>>)
             /\ resy = Arr("int", <<4, 4, 8, 8, 12, 12>>)

C6_Witness ==
    /\ x = Scenario3X /\ y = Scenario3Y
    /\ histogramType = "center"
    /\ pc = "returned"
    /\ resx.v = <<0, 4, 4, 8, 8, 12>>

\* C7 (as stated): for x=[0,1,2], y=[5,6] and mode 'right' the call works on
\* the edges [0,1,2,3] and returns resx=[0,1,1,2,2,3], resy=[5,5,6,6].
C7_ScenarioFourEdges ==
    (/\ x = Scenario2X /\ y = Scenario2Y /\ histogramType = "right"
     /\ pc \in {"returned", "raised"})
    => /\ pc = "returned"
       /\ edges.v = <<0, 4, 8, 12>>
       /\ resx.v = <<0, 4, 4, 8, 8, 12>>
       /\ resy.v = <<20, 20, 24, 24>>

\* C7 (amended): for x=[0,1,2], y=[5,6] and mode 'right' the call uses x as
\* the edges, [0,1,2], since len(x) = len(y) + 1, and returns
\* resx=[0,1,1,2], resy=[5,5,6,6].
C7_ScenarioThreeEdges ==
    (/\ x = Scenario2X /\ y = Scenario2Y /\ histogramType = "right"
     /\ pc \in {"returned", "raised"})
    => /\ pc = "returned"
       /\ edges.v = <<0, 4, 8>>
       /\ resx.v = <<0, 4, 4, 8>>
       /\ resy.v = <<20, 20, 24, 24>>

C7_Witness ==
    /\ x = Scenario2X /\ y = Scenario2Y /\ histogramType = "right"
    /\ pc = "returned"
    /\ Len(resx.v) = Len(resy.v)

\* C8: a call whose mode is not 'left', 'right' or 'center' raises at its
\* first statement: it never gets past line 97, binds no edges and no
\* output, whatever x and y are, also when x already holds the edges.
C8_InvalidModeRaisesFirst ==
    histogramType \notin {"left", "right", "center"}
    => /\ pc \in {"l97", "raised"}
       /\ pc = "raised" => exc = "AssertionError"
       /\ edges = Unbound /\ resx = Unbound /\ resy = Unbound

C8_Witness ==
    /\ histogramType = "None"
    /\ Len(x.v) = Len(y.v) + 1
    /\ Len(x.v) >= 2
    /\ pc = "raised"
    /\ exc = "AssertionError"

\* C9: a call with a legal mode whose x and y differ in length, other than
\* len(x) = len(y) + 1, raises and returns nothing.
C9_LengthMismatchRaises ==
    (/\ histogramType \in {"left", "right", "center"}
     /\ Len(x.v) # Len(y.v)
     /\ Len(x.v) # Len(y.v) + 1)
    => pc # "returned"

\* C10: with a legal mode, a call whose edges would be fewer than 2 (x
\* empty, or x of length 1 used as edges with an empty y) raises before any
\* output is allocated; and for x of length n >= 1 with y of length n the
\* computed edges have length n+1 and the call never raises.
C10_FewEdgesRaise ==
    histogramType \in {"left", "right", "center"}
    => /\ (Len(x.v) = 0 \/ (Len(x.v) = 1 /\ Len(y.v) = 0))
          => /\ pc \in {"l97", "l98", "l102", "raised"}
             /\ resx = Unbound /\ resy = Unbound
             /\ pc = "l102" => Len(edges.v) < 2
       /\ (Len(x.v) >= 1 /\ Len(y.v) = Len(x.v))
          => /\ pc # "raised"
             /\ pc \notin {"l97", "l98"} => Len(edges.v) = Len(x.v) + 1

C10_Witness ==
    /\ histogramType \in {"left", "right", "center"}
    /\ Len(x.v) = 1 /\ Len(y.v) = 0
    /\ edges = x
    /\ pc = "raised"
    /\ exc = "AssertionError"

\* =================================================== the heap of arrays
(***************************************************************************)
(* _computeEdges and _getHistogramValue once more, statement by statement, *)
(* on a heap of array objects: heap[r] is the content of the object r, a   *)
(* name holds a reference (0 is an unbound name), and a statement either   *)
(* binds a name to an existing object, allocates an object, or writes into *)
(* one.  stack holds the frames of the running calls, the innermost last.  *)
(* ret holds the references a finished call returned; orig the contents    *)
(* the caller's x and y had when the call was made.                        *)
(***************************************************************************)
\* the caller's arrays are the first two objects
XRef == 1
YRef == 2

HeapXArrays == {Arr("int", v) : v \in SeqsUpTo({IntVal(0), IntVal(1)}, MaxLen)}
HeapYArrays == {Arr("float", v) : v \in SeqsUpTo({HalfVal(1)}, MaxLen)}

Frame(fn, mode, xr, yr) ==
    [fn |-> fn, pc |-> IF fn = "_computeEdges" THEN "l61" ELSE "l97",
     mode |-> mode, x |-> xr, y |-> yr, edges |-> 0, resx |-> 0, resy |-> 0]

Top == stack[Len(stack)]
Running(fn, at) == Len(stack) > 0 /\ Top.fn = fn /\ Top.pc = at
SetTop(f) == [stack EXCEPT ![Len(stack)] = f]
NewRef == Len(heap) + 1

HeapInit ==
    /\ \E xa \in HeapXArrays, ya \in HeapYArrays :
          /\ heap = <<xa, ya>>
          /\ orig = <<xa, ya>>
    /\ \E fn \in {"_computeEdges", "_getHistogramValue"}, m \in HistogramTypes :
          stack = <<Frame(fn, m, XRef, YRef)>>
    /\ ret = <<>>
    /\ hexc = "none"
    /\ touched = FALSE
    /\ HistIdle
    /\ RoiIdle
    /\ CurveIdle

\* an exception leaves every frame: no caller catches it
Throw(e) ==
    /\ stack' = <<>>
    /\ hexc' = e
    /\ UNCHANGED <<heap, ret, orig, touched>>

\* variant of line 61: the name is bound to x itself
EdgesOfXAlias(h, xr) == [heap |-> h, ref |-> xr]

\* line 61: x.copy() is a new object with the content of x
EdgesOfX(h, xr) == [heap |-> Append(h, h[xr]), ref |-> Len(h) + 1]

HCopy ==
    /\ Running("_computeEdges", "l61")
    /\ LET c == EdgesOfX(heap, Top.x)
       IN  /\ heap' = c.heap
           /\ stack' = SetTop([Top EXCEPT !.edges = c.ref, !.pc = "l62"])
    /\ UNCHANGED <<ret, hexc, orig, touched>>
    /\ UNCHANGED notHeap

\* lines 62-66: numpy.append returns a new array
HLeft ==
    /\ Running("_computeEdges", "l62")
    /\ IF Top.mode # "left"
       THEN /\ stack' = SetTop([Top EXCEPT !.pc = "l67"])
            /\ UNCHANGED <<heap, ret, hexc, orig, touched>>
       ELSE LET r == LeftBranch(heap[Top.x], heap[Top.edges])
            IN  IF r.exc # "none" THEN Throw(r.exc)
                ELSE /\ heap' = Append(heap, Arr(r.dt, r.v))
                     /\ stack' = SetTop([Top EXCEPT !.edges = NewRef, !.pc = "l67"])
                     /\ UNCHANGED <<ret, hexc, orig, touched>>
    /\ UNCHANGED notHeap

\* lines 67-68: the nested call receives the object `edges` as its x
HCenterCall ==
    /\ Running("_computeEdges", "l67")
    /\ IF Top.mode # "center"
       THEN stack' = SetTop([Top EXCEPT !.pc = "l72"])
       ELSE stack' = Append(SetTop([Top EXCEPT !.pc = "l68"]),
                            Frame("_computeEdges", "right", Top.edges, 0))
    /\ UNCHANGED <<heap, ret, hexc, orig, touched>>
    /\ UNCHANGED notHeap

\* lines 69-71: edges - widths is a new array
HCenterShift ==
    /\ Running("_computeEdges", "l69")
    /\ heap' = Append(heap, CenterShift(heap[Top.edges]))
    /\ stack' = SetTop([Top EXCEPT !.edges = NewRef, !.pc = "l72"])
    /\ UNCHANGED <<ret, hexc, orig, touched>>
    /\ UNCHANGED notHeap

\* lines 72-76
HRight ==
    /\ Running("_computeEdges", "l72")
    /\ IF Top.mode # "right"
       THEN /\ stack' = SetTop([Top EXCEPT !.pc = "l78"])
            /\ UNCHANGED <<heap, ret, hexc, orig, touched>>
       ELSE LET r == RightBranch(heap[Top.x], heap[Top.edges])
            IN  IF r.exc # "none" THEN Throw(r.exc)
                ELSE /\ heap' = Append(heap, Arr(r.dt, r.v))
                     /\ stack' = SetTop([Top EXCEPT !.edges = NewRef, !.pc = "l78"])
                     /\ UNCHANGED <<ret, hexc, orig, touched>>
    /\ UNCHANGED notHeap

\* line 78: the reference held by `edges` goes to the caller, which binds
\* its own `edges` to it (line 68 or line 101), or out of the model
HReturnEdges ==
    /\ Running("_computeEdges", "l78")
    /\ IF Len(stack) = 1
       THEN /\ stack' = <<>>
            /\ ret' = <<Top.edges>>
       ELSE LET caller == stack[Len(stack) - 1]
                after == IF caller.fn = "_computeEdges" THEN "l69" ELSE "l102"
            IN  /\ stack' = [SubSeq(stack, 1, Len(stack) - 1)
                                EXCEPT ![Len(stack) - 1] =
                                    [caller EXCEPT !.edges = Top.edges, !.pc = after]]
                /\ ret' = ret
    /\ UNCHANGED <<heap, hexc, orig, touched>>
    /\ UNCHANGED notHeap

\* line 97
GAssertType ==
    /\ Running("_getHistogramValue", "l97")
    /\ IF Top.mode \in ValidTypes
       THEN /\ stack' = SetTop([Top EXCEPT !.pc = "l98"])
            /\ UNCHANGED <<heap, ret, hexc, orig, touched>>
       ELSE Throw("AssertionError")
    /\ UNCHANGED notHeap

\* lines 98-101: `edges` is bound to the object x, or _computeEdges is called
GSelect ==
    /\ Running("_getHistogramValue", "l98")
    /\ IF UsesXAsEdges(heap[Top.x], heap[Top.y])
       THEN stack' = SetTop([Top EXCEPT !.edges = Top.x, !.pc = "l102"])
       ELSE stack' = Append(SetTop([Top EXCEPT !.pc = "l101"]),
                            Frame("_computeEdges", Top.mode, Top.x, 0))
    /\ UNCHANGED <<heap, ret, hexc, orig, touched>>
    /\ UNCHANGED notHeap

\* line 102
GAssertEdges ==
    /\ Running("_getHistogramValue", "l102")
    /\ IF EnoughEdges(heap[Top.edges])
       THEN /\ stack' = SetTop([Top EXCEPT !.pc = "l104"])
            /\ UNCHANGED <<heap, ret, hexc, orig, touched>>
       ELSE Throw("AssertionError")
    /\ UNCHANGED notHeap

\* lines 104-105: numpy.empty allocates two new arrays
GAllocate ==
    /\ Running("_getHistogramValue", "l104")
    /\ \E g \in Garbage :
          heap' = heap \o <<ResxBuffer(heap[Top.edges], g),
                            ResyBuffer(heap[Top.edges], g)>>
    /\ stack' = SetTop([Top EXCEPT !.resx = NewRef, !.resy = NewRef + 1,
                                   !.pc = "l107"])
    /\ UNCHANGED <<ret, hexc, orig, touched>>
    /\ UNCHANGED notHeap

\* lines 107-108: written into the object resx
GFillResx ==
    /\ Running("_getHistogramValue", "l107")
    /\ heap' = [heap EXCEPT ![Top.resx] = FillX(heap[Top.resx], heap[Top.edges])]
    /\ stack' = SetTop([Top EXCEPT !.pc = "l109"])
    /\ UNCHANGED <<ret, hexc, orig, touched>>
    /\ UNCHANGED notHeap

\* lines 109-110: written into the object resy
GFillResy ==
    /\ Running("_getHistogramValue", "l109")
    /\ IF CanFillY(heap[Top.resy], heap[Top.y])
       THEN /\ heap' = [heap EXCEPT ![Top.resy] = FillY(heap[Top.resy], heap[Top.y])]
            /\ stack' = SetTop([Top EXCEPT !.pc = "l112"])
            /\ UNCHANGED <<ret, hexc, orig, touched>>
       ELSE Throw("ValueError")
    /\ UNCHANGED notHeap

\* lines 112-113
GReturn ==
    /\ Running("_getHistogramValue", "l112")
    /\ IF Len(heap[Top.resx].v) = Len(heap[Top.resy].v)
       THEN /\ stack' = <<>>
            /\ ret' = <<Top.resx, Top.resy>>
            /\ UNCHANGED <<heap, hexc, orig, touched>>
       ELSE Throw("AssertionError")
    /\ UNCHANGED notHeap

\* after the call: the caller writes once into an array it was returned
CallerWrites ==
    /\ stack = <<>>
    /\ ~touched
    /\ \E k \in 1..Len(ret) : \E i \in 1..Len(heap[ret[k]].v) :
          heap' = [heap EXCEPT ![ret[k]].v[i] = @ + IntVal(1)]
    /\ touched' = TRUE
    /\ UNCHANGED <<stack, ret, hexc, orig>>
    /\ UNCHANGED notHeap

HeapNext ==
    \/ HCopy
    \/ HLeft
    \/ HCenterCall
    \/ HCenterShift
    \/ HRight
    \/ HReturnEdges
    \/ GAssertType
    \/ GSelect
    \/ GAssertEdges
    \/ GAllocate
    \/ GFillResx
    \/ GFillResy
    \/ GReturn
    \/ CallerWrites

SpecHeap == HeapInit /\ [][HeapNext]_vars

\* C11: _computeEdges and _getHistogramValue never change the content of
\* the caller's x and y, in any mode, in the nested call of the center mode
\* or when x serves as the edges; every array they return is an object
\* allocated by the call, neither x nor y, so that a later write into a
\* returned array leaves x and y as they were.
C11_InputsUntouchedResultsFresh ==
    /\ heap[XRef] = orig[1]
    /\ heap[YRef] = orig[2]
    /\ \A k \in 1..Len(ret) : ret[k] \notin {XRef, YRef}
    /\ \A j, k \in 1..Len(ret) : j # k => ret[j] # ret[k]

C11_Witness ==
    /\ touched
    /\ Len(ret) = 2
    /\ heap[XRef] = orig[1]
    /\ Len(orig[1].v) = Len(orig[2].v) + 1
    /\ Len(orig[1].v) >= 2

\* ====================================================== _ProfileCrossROI
(***************************************************************************)
(* tools/profile/rois.py: a cross ROI, its horizontal and vertical line    *)
(* ROIs and the ROI manager.  Signals are delivered synchronously: an      *)
(* emission runs the connected handler to its end before the emitter goes  *)
(* on, so the running handlers form a stack (rstack, innermost last).      *)
(* The ROI manager and the ROI base class are not part of the sources at   *)
(* hand; what is modelled of them is what rois.py relies on: addRoi        *)
(* registers a ROI, removeRoi refuses a ROI that is not registered, emits  *)
(* the ROI's sigAboutToBeRemoved and then unregisters it.                  *)
(***************************************************************************)
\* coordinates are 0..MaxPos
MaxPos == 1

Rois == {"cross", "hline", "vline"}
Lines == {"hline", "vline"}
Positions == 0..MaxPos

OtherLine(l) == IF l = "hline" THEN "vline" ELSE "hline"

\* a line ROI before _createLines made it
NoLine == [exists |-> FALSE, editable |-> FALSE, name |-> "", focusProxy |-> "None",
           position |-> 0, connected |-> FALSE]

RFrame(fn, at, roi) ==
    [fn |-> fn, pc |-> at, roi |-> roi, h |-> "None", v |-> "None", isH |-> FALSE]

RTop == rstack[Len(rstack)]
RAt(fn, at) == Len(rstack) > 0 /\ RTop.fn = fn /\ RTop.pc = at
RGoto(at) == [rstack EXCEPT ![Len(rstack)] = [RTop EXCEPT !.pc = at]]
RSet(f) == [rstack EXCEPT ![Len(rstack)] = f]
RPop == SubSeq(rstack, 1, Len(rstack) - 1)
RCall(at, f) == Append(RGoto(at), f)

\* both lines are held by the cross and the three ROIs are registered
Full == hlineRef # "None" /\ vlineRef # "None" /\ roiMgr = Rois

Op(kind, roi) == [kind |-> kind, roi |-> roi, full |-> Full, before |-> lines]

RoiInit ==
    /\ roiMgr = {"cross"}
    /\ removals = [r \in Rois |-> 0]
    /\ asked = [r \in Rois |-> 0]
    /\ lines = [l \in Lines |-> NoLine]
    /\ hlineRef = "None"
    /\ vlineRef = "None"
    /\ crossPos \in Positions \X Positions
    /\ rstack = <<>>
    /\ rexc = "none"
    /\ lastOp = [kind |-> "init", roi |-> "None", full |-> FALSE,
                 before |-> [l \in Lines |-> NoLine]]
    /\ lineRemovedRuns = 0
    /\ HistIdle
    /\ HeapIdle
    /\ CurveIdle

\* an exception unwinds every running handler
RThrow(e) ==
    /\ rstack' = <<>>
    /\ rexc' = e

Quiet == rstack = <<>> /\ rexc = "none"

\* ------------------------------------------------------- what callers do
\* lines 301-303: the profile manager takes the cross in charge
SetProfileManager ==
    /\ Quiet
    /\ "cross" \in roiMgr
    /\ \A l \in Lines : ~lines[l].exists
    /\ rstack' = <<RFrame("_createSubRois", "l306", "cross")>>
    /\ lastOp' = Op("create", "cross")
    /\ UNCHANGED <<roiMgr, removals, asked, lines, hlineRef, vlineRef, crossPos,
                   rexc, lineRemovedRuns>>
    /\ UNCHANGED notRoi

\* the cross is moved: setPosition emits sigRegionChanged (line 289)
MoveCross ==
    /\ Quiet
    /\ \E p \in Positions \X Positions :
          /\ p # crossPos
          /\ crossPos' = p
    /\ rstack' = <<RFrame("__regionChanged", "l325", "cross")>>
    /\ lastOp' = Op("move", "cross")
    /\ UNCHANGED <<roiMgr, removals, asked, lines, hlineRef, vlineRef,
                   rexc, lineRemovedRuns>>
    /\ UNCHANGED notRoi

\* a registered ROI is removed through the ROI manager
RemoveRoi ==
    /\ Quiet
    /\ \E r \in roiMgr :
          /\ rstack' = <<RFrame("removeRoi", "check", r)>>
          /\ lastOp' = Op("remove", r)
    /\ UNCHANGED <<roiMgr, removals, asked, lines, hlineRef, vlineRef, crossPos,
                   rexc, lineRemovedRuns>>
    /\ UNCHANGED notRoi

\* ------------------------------------------------------- the ROI manager
MgrCheck ==
    /\ RAt("removeRoi", "check")
    /\ asked' = [asked EXCEPT ![RTop.roi] = @ + 1]
    /\ IF RTop.roi \in roiMgr
       THEN rstack' = RGoto("emit") /\ rexc' = rexc
       ELSE RThrow("ValueError")
    /\ UNCHANGED <<roiMgr, removals, lines, hlineRef, vlineRef, crossPos,
                   lastOp, lineRemovedRuns>>
    /\ UNCHANGED notRoi

\* roi.sigAboutToBeRemoved.emit(): lines 290, 307, 310 say what is connected
MgrEmit ==
    /\ RAt("removeRoi", "emit")
    /\ rstack' =
          IF RTop.roi = "cross"
          THEN RCall("remove", RFrame("__aboutToBeRemoved", "l333", "cross"))
          ELSE IF lines[RTop.roi].connected
          THEN RCall("remove", [RFrame("__lineRemoved", "l359", "cross")
                                   EXCEPT !.isH = (RTop.roi = "hline")])
          ELSE RGoto("remove")
    /\ UNCHANGED <<roiMgr, removals, asked, lines, hlineRef, vlineRef, crossPos,
                   rexc, lastOp, lineRemovedRuns>>
    /\ UNCHANGED notRoi

MgrRemove ==
    /\ RAt("removeRoi", "remove")
    /\ IF RTop.roi \in roiMgr
       THEN /\ roiMgr' = roiMgr \ {RTop.roi}
            /\ removals' = [removals EXCEPT ![RTop.roi] = @ + 1]
            /\ rstack' = RPop
            /\ rexc' = rexc
       ELSE /\ RThrow("ValueError")
            /\ UNCHANGED <<roiMgr, removals>>
    /\ UNCHANGED <<asked, lines, hlineRef, vlineRef, crossPos, lastOp,
                   lineRemovedRuns>>
    /\ UNCHANGED notRoi

\* -------------------------------------------------------- _createSubRois
\* line 306 (and _createLines, lines 388-391)
CreateLines ==
    /\ RAt("_createSubRois", "l306")
    /\ \E e \in BOOLEAN :
          lines' = [l \in Lines |-> [NoLine EXCEPT !.exists = TRUE, !.editable = e]]
    /\ rstack' = RSet([RTop EXCEPT !.h = "hline", !.v = "vline", !.pc = "l307"])
    /\ UNCHANGED <<roiMgr, removals, asked, hlineRef, vlineRef, crossPos,
                   rexc, lastOp, lineRemovedRuns>>
    /\ UNCHANGED notRoi

\* lines 307-309 and 310-312
Attached(ls, l) ==
    [ls EXCEPT ![l].connected = TRUE, ![l].editable = FALSE, ![l].focusProxy = "cross"]

AttachVline ==
    /\ RAt("_createSubRois", "l307")
    /\ lines' = Attached(lines, RTop.v)
    /\ rstack' = RGoto("l310")
    /\ UNCHANGED <<roiMgr, removals, asked, hlineRef, vlineRef, crossPos,
                   rexc, lastOp, lineRemovedRuns>>
    /\ UNCHANGED notRoi

AttachHline ==
    /\ RAt("_createSubRois", "l310")
    /\ lines' = Attached(lines, RTop.h)
    /\ rstack' = RGoto("l313")
    /\ UNCHANGED <<roiMgr, removals, asked, hlineRef, vlineRef, crossPos,
                   rexc, lastOp, lineRemovedRuns>>
    /\ UNCHANGED notRoi

\* lines 313-314
HoldLines ==
    /\ RAt("_createSubRois", "l313")
    /\ vlineRef' = RTop.v
    /\ hlineRef' = RTop.h
    /\ rstack' = RGoto("l315")
    /\ UNCHANGED <<roiMgr, removals, asked, lines, crossPos, rexc, lastOp,
                   lineRemovedRuns>>
    /\ UNCHANGED notRoi

\* line 315
PlaceLines ==
    /\ RAt("_createSubRois", "l315")
    /\ rstack' = RCall("l318", RFrame("__regionChanged", "l325", "cross"))
    /\ UNCHANGED <<roiMgr, removals, asked, lines, hlineRef, vlineRef, crossPos,
                   rexc, lastOp, lineRemovedRuns>>
    /\ UNCHANGED notRoi

\* lines 316-318
AddVline ==
    /\ RAt("_createSubRois", "l318")
    /\ roiMgr' = roiMgr \cup {vlineRef}
    /\ rstack' = RGoto("l319")
    /\ UNCHANGED <<removals, asked, lines, hlineRef, vlineRef, crossPos,
                   rexc, lastOp, lineRemovedRuns>>
    /\ UNCHANGED notRoi

\* line 319
AddHline ==
    /\ RAt("_createSubRois", "l319")
    /\ roiMgr' = roiMgr \cup {hlineRef}
    /\ rstack' = RPop
    /\ UNCHANGED <<removals, asked, lines, hlineRef, vlineRef, crossPos,
                   rexc, lastOp, lineRemovedRuns>>
    /\ UNCHANGED notRoi

\* -------------------------------------------------------- __regionChanged
\* lines 325-328
ReadLines ==
    /\ RAt("__regionChanged", "l325")
    /\ rstack' = IF hlineRef = "None" THEN RPop
                 ELSE RSet([RTop EXCEPT !.h = hlineRef, !.v = vlineRef, !.pc = "l329"])
    /\ UNCHANGED <<roiMgr, removals, asked, lines, hlineRef, vlineRef, crossPos,
                   rexc, lastOp, lineRemovedRuns>>
    /\ UNCHANGED notRoi

\* line 329: hline.setPosition(y)
HlinePosition(pos) == pos[2]

MoveHline ==
    /\ RAt("__regionChanged", "l329")
    /\ lines' = [lines EXCEPT ![RTop.h].position = HlinePosition(crossPos)]
    /\ rstack' = RGoto("l330")
    /\ UNCHANGED <<roiMgr, removals, asked, hlineRef, vlineRef, crossPos,
                   rexc, lastOp, lineRemovedRuns>>
    /\ UNCHANGED notRoi

\* variant of line 330: the vertical line is given y
VlinePositionY(pos) == pos[2]

\* line 330: vline.setPosition(x)
VlinePosition(pos) == pos[1]

MoveVline ==
    /\ RAt("__regionChanged", "l330")
    /\ IF RTop.v = "None"
       THEN RThrow("AttributeError") /\ lines' = lines
       ELSE /\ lines' = [lines EXCEPT ![RTop.v].position = VlinePosition(crossPos)]
            /\ rstack' = RPop
            /\ rexc' = rexc
    /\ UNCHANGED <<roiMgr, removals, asked, hlineRef, vlineRef, crossPos,
                   lastOp, lineRemovedRuns>>
    /\ UNCHANGED notRoi

\* ----------------------------------------------------- __aboutToBeRemoved
\* variant of lines 337, 339: the handler stays connected
StillConnected(ls, l) == ls

\* lines 337, 339, 361, 362: sigAboutToBeRemoved.disconnect(handler)
Disconnected(ls, l) == [ls EXCEPT ![l].connected = FALSE]

\* lines 333-334
AbRead ==
    /\ RAt("__aboutToBeRemoved", "l333")
    /\ rstack' = RSet([RTop EXCEPT !.h = hlineRef, !.v = vlineRef, !.pc = "l336"])
    /\ UNCHANGED <<roiMgr, removals, asked, lines, hlineRef, vlineRef, crossPos,
                   rexc, lastOp, lineRemovedRuns>>
    /\ UNCHANGED notRoi

\* lines 336-337
AbDisconnectH ==
    /\ RAt("__aboutToBeRemoved", "l336")
    /\ IF RTop.h = "None"
       THEN rstack' = RGoto("l338") /\ lines' = lines /\ rexc' = rexc
       ELSE IF ~lines[RTop.h].connected
       THEN RThrow("TypeError") /\ lines' = lines
       ELSE /\ lines' = Disconnected(lines, RTop.h)
            /\ rstack' = RGoto("l338")
            /\ rexc' = rexc
    /\ UNCHANGED <<roiMgr, removals, asked, hlineRef, vlineRef, crossPos,
                   lastOp, lineRemovedRuns>>
    /\ UNCHANGED notRoi

\* lines 338-339
AbDisconnectV ==
    /\ RAt("__aboutToBeRemoved", "l338")
    /\ IF RTop.v = "None"
       THEN rstack' = RGoto("l343") /\ lines' = lines /\ rexc' = rexc
       ELSE IF ~lines[RTop.v].connected
       THEN RThrow("TypeError") /\ lines' = lines
       ELSE /\ lines' = Disconnected(lines, RTop.v)
            /\ rstack' = RGoto("l343")
            /\ rexc' = rexc
    /\ UNCHANGED <<roiMgr, removals, asked, hlineRef, vlineRef, crossPos,
                   lastOp, lineRemovedRuns>>
    /\ UNCHANGED notRoi

\* lines 341-344
AbRemoveH ==
    /\ RAt("__aboutToBeRemoved", "l343")
    /\ rstack' = IF RTop.h = "None" THEN RGoto("l346")
                 ELSE RCall("l345", RFrame("removeRoi", "check", RTop.h))
    /\ UNCHANGED <<roiMgr, removals, asked, lines, hlineRef, vlineRef, crossPos,
                   rexc, lastOp, lineRemovedRuns>>
    /\ UNCHANGED notRoi

\* line 345
AbDropH ==
    /\ RAt("__aboutToBeRemoved", "l345")
    /\ hlineRef' = "None"
    /\ rstack' = RGoto("l346")
    /\ UNCHANGED <<roiMgr, removals, asked, lines, vlineRef, crossPos,
                   rexc, lastOp, lineRemovedRuns>>
    /\ UNCHANGED notRoi

\* lines 346-347
AbRemoveV ==
    /\ RAt("__aboutToBeRemoved", "l346")
    /\ rstack' = IF RTop.v = "None" THEN RPop
                 ELSE RCall("l348", RFrame("removeRoi", "check", RTop.v))
    /\ UNCHANGED <<roiMgr, removals, asked, lines, hlineRef, vlineRef, crossPos,
                   rexc, lastOp, lineRemovedRuns>>
    /\ UNCHANGED notRoi

\* line 348
AbDropV ==
    /\ RAt("__aboutToBeRemoved", "l348")
    /\ vlineRef' = "None"
    /\ rstack' = RPop
    /\ UNCHANGED <<roiMgr, removals, asked, lines, hlineRef, crossPos,
                   rexc, lastOp, lineRemovedRuns>>
    /\ UNCHANGED notRoi

\* ---------------------------------------------------------- __lineRemoved
\* lines 350-359
LrRead ==
    /\ RAt("__lineRemoved", "l359")
    /\ lineRemovedRuns' = lineRemovedRuns + 1
    /\ rstack' = RSet([RTop EXCEPT !.h = hlineRef, !.v = vlineRef, !.pc = "l361"])
    /\ UNCHANGED <<roiMgr, removals, asked, lines, hlineRef, vlineRef, crossPos,
                   rexc, lastOp>>
    /\ UNCHANGED notRoi

\* line 361
LrDisconnectH ==
    /\ RAt("__lineRemoved", "l361")
    /\ IF RTop.h = "None"
       THEN RThrow("AttributeError") /\ lines' = lines
       ELSE IF ~lines[RTop.h].connected
       THEN RThrow("TypeError") /\ lines' = lines
       ELSE /\ lines' = Disconnected(lines, RTop.h)
            /\ rstack' = RGoto("l362")
            /\ rexc' = rexc
    /\ UNCHANGED <<roiMgr, removals, asked, hlineRef, vlineRef, crossPos,
                   lastOp, lineRemovedRuns>>
    /\ UNCHANGED notRoi

\* line 362
LrDisconnectV ==
    /\ RAt("__lineRemoved", "l362")
    /\ IF RTop.v = "None"
       THEN RThrow("AttributeError") /\ lines' = lines
       ELSE IF ~lines[RTop.v].connected
       THEN RThrow("TypeError") /\ lines' = lines
       ELSE /\ lines' = Disconnected(lines, RTop.v)
            /\ rstack' = RGoto("l364")
            /\ rexc' = rexc
    /\ UNCHANGED <<roiMgr, removals, asked, hlineRef, vlineRef, crossPos,
                   lastOp, lineRemovedRuns>>
    /\ UNCHANGED notRoi

\* lines 364-365
LrDrop ==
    /\ RAt("__lineRemoved", "l364")
    /\ hlineRef' = "None"
    /\ vlineRef' = "None"
    /\ rstack' = RGoto("l368")
    /\ UNCHANGED <<roiMgr, removals, asked, lines, crossPos, rexc, lastOp,
                   lineRemovedRuns>>
    /\ UNCHANGED notRoi

\* variant of lines 368-375: the branches are exchanged
ReleasedLineSame(isHline, h, v) == IF isHline THEN h ELSE v

\* lines 368-375: the line that is not being removed is set free
ReleasedLine(isHline, h, v) == IF isHline THEN v ELSE h

LrRelease ==
    /\ RAt("__lineRemoved", "l368")
    /\ LET l == ReleasedLine(RTop.isH, RTop.h, RTop.v)
       IN  lines' = [lines EXCEPT ![l].focusProxy = "None",
                                  ![l].name = "Profile",
                                  ![l].editable = TRUE]
    /\ rstack' = RGoto("l376")
    /\ UNCHANGED <<roiMgr, removals, asked, hlineRef, vlineRef, crossPos,
                   rexc, lastOp, lineRemovedRuns>>
    /\ UNCHANGED notRoi

\* line 376
LrRemoveSelf ==
    /\ RAt("__lineRemoved", "l376")
    /\ rstack' = RCall("end", RFrame("removeRoi", "check", "cross"))
    /\ UNCHANGED <<roiMgr, removals, asked, lines, hlineRef, vlineRef, crossPos,
                   rexc, lastOp, lineRemovedRuns>>
    /\ UNCHANGED notRoi

LrReturn ==
    /\ RAt("__lineRemoved", "end")
    /\ rstack' = RPop
    /\ UNCHANGED <<roiMgr, removals, asked, lines, hlineRef, vlineRef, crossPos,
                   rexc, lastOp, lineRemovedRuns>>
    /\ UNCHANGED notRoi

RoiNext ==
    \/ SetProfileManager
    \/ MoveCross
    \/ RemoveRoi
    \/ MgrCheck
    \/ MgrEmit
    \/ MgrRemove
    \/ CreateLines
    \/ AttachVline
    \/ AttachHline
    \/ HoldLines
    \/ PlaceLines
    \/ AddVline
    \/ AddHline
    \/ ReadLines
    \/ MoveHline
    \/ MoveVline
    \/ AbRead
    \/ AbDisconnectH
    \/ AbDisconnectV
    \/ AbRemoveH
    \/ AbDropH
    \/ AbRemoveV
    \/ AbDropV
    \/ LrRead
    \/ LrDisconnectH
    \/ LrDisconnectV
    \/ LrDrop
    \/ LrRelease
    \/ LrRemoveSelf
    \/ LrReturn

SpecRoi == RoiInit /\ [][RoiNext]_vars

RoiTypeOK ==
    /\ roiMgr \subseteq Rois
    /\ hlineRef \in {"None", "hline"}
    /\ vlineRef \in {"None", "vline"}
    /\ rexc = "none"
    /\ \A r \in Rois : removals[r] <= 1 /\ asked[r] <= 1

\* C12: with both lines held and all three ROIs registered, removing either
\* line makes the cross disconnect its handlers from both lines, drop both
\* references and remove itself from the ROI manager exactly once; the other
\* line stays registered, editable, named 'Profile', without focus proxy;
\* the cross's own about-to-be-removed handler removes no line.
C12_LineRemovalFreesOther ==
    (lastOp.kind = "remove" /\ lastOp.roi \in Lines /\ lastOp.full)
    => LET gone == lastOp.roi
           other == OtherLine(lastOp.roi)
       IN  /\ rexc = "none"
           /\ asked[other] = 0 /\ removals[other] = 0 /\ other \in roiMgr
           /\ asked["cross"] <= 1 /\ asked[gone] <= 1
           /\ rstack = <<>>
              => /\ \A l \in Lines : ~lines[l].connected
                 /\ hlineRef = "None" /\ vlineRef = "None"
                 /\ asked["cross"] = 1 /\ removals["cross"] = 1
                 /\ asked[gone] = 1 /\ removals[gone] = 1
                 /\ roiMgr = {other}
                 /\ lines[other].editable
                 /\ lines[other].name = "Profile"
                 /\ lines[other].focusProxy = "None"

C12_Witness ==
    /\ lastOp.kind = "remove" /\ lastOp.roi = "hline" /\ lastOp.full
    /\ rstack = <<>>
    /\ roiMgr = {"vline"}
    /\ lines["vline"].editable
    /\ lineRemovedRuns = 1

\* C13: with both lines held and all three ROIs registered, removing the
\* cross removes each line from the ROI manager exactly once, __lineRemoved
\* never runs (both handlers are disconnected first), the cross is not asked
\* to be removed a second time, and afterwards it holds neither line.
C13_CrossRemovalTakesLines ==
    (lastOp.kind = "remove" /\ lastOp.roi = "cross" /\ lastOp.full)
    => /\ rexc = "none"
       /\ lineRemovedRuns = 0
       /\ asked["cross"] <= 1
       /\ \A l \in Lines : asked[l] <= 1 /\ removals[l] <= 1
       /\ rstack = <<>>
          => /\ \A l \in Lines : asked[l] = 1 /\ removals[l] = 1
             /\ asked["cross"] = 1 /\ removals["cross"] = 1
             /\ roiMgr = {}
             /\ hlineRef = "None" /\ vlineRef = "None"

C13_Witness ==
    /\ lastOp.kind = "remove" /\ lastOp.roi = "cross" /\ lastOp.full
    /\ rstack = <<>>
    /\ roiMgr = {}
    /\ removals["hline"] = 1 /\ removals["vline"] = 1

\* the lines sit where the cross is
LinesFollowCross ==
    /\ lines["hline"].position = crossPos[2]
    /\ lines["vline"].position = crossPos[1]

\* C14: from the creation of the lines until they are dropped, outside a
\* handler the horizontal line is at the cross's y and the vertical line at
\* the cross's x, whatever moves the cross made; this holds already when
\* the lines are added to the ROI manager; outside a handler the two
\* references are both set or both None; and a move of the cross while they
\* are None changes no line.
C14_LinesFollowCross ==
    /\ rstack = <<>> => ((hlineRef = "None") <=> (vlineRef = "None"))
    /\ (rstack = <<>> /\ hlineRef # "None") => LinesFollowCross
    /\ (RAt("_createSubRois", "l318") \/ RAt("_createSubRois", "l319"))
       => LinesFollowCross
    /\ (lastOp.kind = "move" /\ hlineRef = "None") => lines = lastOp.before

C14_Witness ==
    /\ lastOp.kind = "move"
    /\ rstack = <<>>
    /\ hlineRef = "hline" /\ vlineRef = "vline"
    /\ crossPos[1] # crossPos[2]
    /\ LinesFollowCross

\* ================================================================ Curve
(***************************************************************************)
(* items/curve.py, class Curve: the setters of the line and highlight      *)
(* properties.  A call is one step: the setter runs to its end or raises.  *)
(* updated and invalidated count the calls of _updated() and of            *)
(* plot._invalidateDataRange() made by the last call; lastCall records the *)
(* call and the curve as it was before.  Python's None is NoneValue, to be *)
(* told from the string 'None'.  Widths are held in quarters as above.     *)
(***************************************************************************)
\* line widths passed are 1..MaxWidth and the halves up to MaxWidth
MaxWidth == 2

NoneValue == "<None>"

\* lines 125, 128, 131
DefaultLineWidth == IntVal(1)
DefaultLineStyle == "-"
DefaultHighlightColor == <<0, 0, 0, 255>>

\* the arguments the callers pass
HighlightedArgs == {"True", "False", "0", "1", NoneValue}
WidthArgs ==
    {[t |-> "int", q |-> IntVal(k)] : k \in 1..MaxWidth}
    \cup {[t |-> "float", q |-> HalfVal(k)] : k \in 1..(2 * MaxWidth)}
    \cup {[t |-> "str", q |-> 0]}
StyleArgs == {"", " ", "-", "--", "-.", ":", NoneValue, "solid"}
ColorArgs == {"black", "#000000", "red", "#FF0000", "not a color"}
HistogramArgs == {"left", "right", "center", NoneValue, "top"}

\* bool(highlighted), line 245
BoolOf(v) == v \in {"True", "1"}

\* float(width), line 294: a number converts, this string does not
CanFloat(w) == w.t # "str"
FloatOf(w) == w.q

\* str(style), line 321
StrOf(v) == IF v = NoneValue THEN "None" ELSE v

\* line 322: the tuple the converted style is asserted to be in
AcceptedStyles == {"", " ", "-", "--", "-.", ":", NoneValue}

\* line 345
AcceptedHistograms == {"left", "right", "center", NoneValue}

\* Colors.rgba, line 265: names and codes of one colour give one tuple
IsColor(c) == c \in {"black", "#000000", "red", "#FF0000"}
RgbaOf(c) ==
    CASE c \in {"black", "#000000"} -> <<0, 0, 0, 255>>
      [] c \in {"red", "#FF0000"} -> <<255, 0, 0, 255>>

\* lines 134-146, and a curve shown or hidden, in a plot or not
CurveInit ==
    /\ \E vis \in BOOLEAN, pl \in BOOLEAN :
          curve = [highlighted |-> FALSE,
                   linewidth |-> DefaultLineWidth,
                   linestyle |-> DefaultLineStyle,
                   highlightColor |-> DefaultHighlightColor,
                   histogram |-> NoneValue,
                   visible |-> vis,
                   plot |-> pl]
    /\ lastCall = [setter |-> "__init__", arg |-> NoneValue, before |-> <<>>]
    /\ updated = 0
    /\ invalidated = 0
    /\ cexc = "none"
    /\ HistIdle
    /\ HeapIdle
    /\ RoiIdle

\* the outcome of a call
Outcome(c, u, i, e) == [curve |-> c, updated |-> u, invalidated |-> i, exc |-> e]

Call(setter, arg) == [setter |-> setter, arg |-> arg, before |-> curve]

\* lines 240-249
setHighlighted(c, highlighted) ==
    LET h == BoolOf(highlighted)
    IN  IF h # c.highlighted
        THEN Outcome([c EXCEPT !.highlighted = h], 1, 0, "none")
        ELSE Outcome(c, 0, 0, "none")

\* lines 258-268
setHighlightedColor(c, color) ==
    IF ~IsColor(color) THEN Outcome(c, 0, 0, "ValueError")
    ELSE LET rgba == RgbaOf(color)
         IN  IF rgba # c.highlightColor
             THEN Outcome([c EXCEPT !.highlightColor = rgba], 1, 0, "none")
             ELSE Outcome(c, 0, 0, "none")

\* lines 287-297
setLineWidth(c, width) ==
    IF ~CanFloat(width) THEN Outcome(c, 0, 0, "ValueError")
    ELSE LET w == FloatOf(width)
         IN  IF w # c.linewidth
             THEN Outcome([c EXCEPT !.linewidth = w], 1, 0, "none")
             ELSE Outcome(c, 0, 0, "none")

\* lines 314-327
setLineStyle(c, style) ==
    LET s1 == StrOf(style)
    IN  IF s1 \notin AcceptedStyles THEN Outcome(c, 0, 0, "AssertionError")
        ELSE LET s2 == IF s1 = NoneValue THEN DefaultLineStyle ELSE s1
             IN  IF s2 # c.linestyle
                 THEN Outcome([c EXCEPT !.linestyle = s2], 1, 0, "none")
                 ELSE Outcome(c, 0, 0, "none")

\* lines 344-353
setHistogramType(c, histogram) ==
    IF histogram \notin AcceptedHistograms THEN Outcome(c, 0, 0, "AssertionError")
    ELSE IF histogram # c.histogram
    THEN Outcome([c EXCEPT !.histogram = histogram], 1,
                 IF c.visible /\ c.plot THEN 1 ELSE 0, "none")
    ELSE Outcome(c, 0, 0, "none")

\* lines 219-231
setVisible(c, visible) ==
    LET visibleChanged == c.visible # visible
    IN  Outcome([c EXCEPT !.visible = visible],
                IF visibleChanged THEN 1 ELSE 0,
                IF visibleChanged /\ c.plot THEN 1 ELSE 0, "none")

SetHighlighted ==
    \E a \in HighlightedArgs :
        LET o == setHighlighted(curve, a)
        IN  /\ lastCall' = Call("setHighlighted", a)
            /\ curve' = o.curve
            /\ updated' = o.updated
            /\ invalidated' = o.invalidated
            /\ cexc' = o.exc
            /\ UNCHANGED notCurve

SetHighlightedColor ==
    \E a \in ColorArgs :
        LET o == setHighlightedColor(curve, a)
        IN  /\ lastCall' = Call("setHighlightedColor", a)
            /\ curve' = o.curve
            /\ updated' = o.updated
            /\ invalidated' = o.invalidated
            /\ cexc' = o.exc
            /\ UNCHANGED notCurve

SetLineWidth ==
    \E a \in WidthArgs :
        LET o == setLineWidth(curve, a)
        IN  /\ lastCall' = Call("setLineWidth", a)
            /\ curve' = o.curve
            /\ updated' = o.updated
            /\ invalidated' = o.invalidated
            /\ cexc' = o.exc
            /\ UNCHANGED notCurve

SetLineStyle ==
    \E a \in StyleArgs :
        LET o == setLineStyle(curve, a)
        IN  /\ lastCall' = Call("setLineStyle", a)
            /\ curve' = o.curve
            /\ updated' = o.updated
            /\ invalidated' = o.invalidated
            /\ cexc' = o.exc
            /\ UNCHANGED notCurve

SetHistogramType ==
    \E a \in HistogramArgs :
        LET o == setHistogramType(curve, a)
        IN  /\ lastCall' = Call("setHistogramType", a)
            /\ curve' = o.curve
            /\ updated' = o.updated
            /\ invalidated' = o.invalidated
            /\ cexc' = o.exc
            /\ UNCHANGED notCurve

SetVisible ==
    \E a \in BOOLEAN :
        LET o == setVisible(curve, a)
        IN  /\ lastCall' = Call("setVisible", a)
            /\ curve' = o.curve
            /\ updated' = o.updated
            /\ invalidated' = o.invalidated
            /\ cexc' = o.exc
            /\ UNCHANGED notCurve

\* the curve is added to a plot or taken out of it
SetPlot ==
    \E a \in BOOLEAN :
        LET o == Outcome([curve EXCEPT !.plot = a], 0, 0, "none")
        IN  /\ lastCall' = Call("_setPlot", a)
            /\ curve' = o.curve
            /\ updated' = o.updated
            /\ invalidated' = o.invalidated
            /\ cexc' = o.exc
            /\ UNCHANGED notCurve

CurveNext ==
    \/ SetHighlighted
    \/ SetHighlightedColor
    \/ SetLineWidth
    \/ SetLineStyle
    \/ SetHistogramType
    \/ SetVisible
    \/ SetPlot

SpecCurve == CurveInit /\ [][CurveNext]_vars

\* the getters, lines 233-238, 251-256, 283-285, 299-312, 330-342
isHighlighted == curve.highlighted
getHighlightedColor == curve.highlightColor
getLineWidth == curve.linewidth
getLineStyle == curve.linestyle
getHistogramType == curve.histogram

\* --------------------------------------------------------------- C15, C16
\* the property a setter writes
FieldOf(setter) ==
    CASE setter = "setHighlighted" -> "highlighted"
      [] setter = "setHighlightedColor" -> "highlightColor"
      [] setter = "setLineWidth" -> "linewidth"
      [] setter = "setLineStyle" -> "linestyle"
      [] setter = "setHistogramType" -> "histogram"

\* the arguments a setter documents as legal
LegalArg(setter, a) ==
    CASE setter = "setHighlighted" -> TRUE
      [] setter = "setHighlightedColor" -> a # "not a color"
      [] setter = "setLineWidth" -> a.t # "str"
      [] setter = "setLineStyle" -> a \in AcceptedStyles
      [] setter = "setHistogramType" -> a \in AcceptedHistograms

\* the value a legal argument stands for: None is the default line style
NormalizedArg(setter, a) ==
    CASE setter = "setHighlighted" -> a \in {"True", "1"}
      [] setter = "setHighlightedColor" ->
            IF a \in {"black", "#000000"} THEN <<0, 0, 0, 255>> ELSE <<255, 0, 0, 255>>
      [] setter = "setLineWidth" -> a.q
      [] setter = "setLineStyle" -> IF a = NoneValue THEN "-" ELSE a
      [] setter = "setHistogramType" -> a

\* what the claim says of the last call
SetterContract ==
    LET f == FieldOf(lastCall.setter)
        new == NormalizedArg(lastCall.setter, lastCall.arg)
        changed == new # lastCall.before[f]
    IN  /\ cexc = "none"
        /\ IF changed
           THEN curve = [lastCall.before EXCEPT ![f] = new] /\ updated = 1
           ELSE curve = lastCall.before /\ updated = 0
        /\ invalidated =
              IF /\ lastCall.setter = "setHistogramType"
                 /\ changed /\ lastCall.before.visible /\ lastCall.before.plot
              THEN 1 ELSE 0

Setters ==
    {"setHighlighted", "setHighlightedColor", "setLineWidth", "setLineStyle",
     "setHistogramType"}

\* C15: after any sequence of calls, a call of setHighlighted, setLineWidth,
\* setLineStyle, setHighlightedColor or setHistogramType with a legal
\* argument leaves the curve as it was and does not call _updated() when
\* the normalized value equals the stored one; otherwise it stores the
\* value and calls _updated() exactly once; only setHistogramType
\* invalidates the data range, and only when the value changed on a visible
\* curve that is in a plot.
C15_SettersUpdateOnChange ==
    (lastCall.setter \in Setters /\ LegalArg(lastCall.setter, lastCall.arg))
    => SetterContract

\* the same, apart from setLineStyle(None)
SettersUpdateOnChangeButNoneStyle ==
    (/\ lastCall.setter \in Setters
     /\ LegalArg(lastCall.setter, lastCall.arg)
     /\ ~(lastCall.setter = "setLineStyle" /\ lastCall.arg = NoneValue))
    => SetterContract

\* C16: setLineStyle(None) raises nothing and leaves the line style at the
\* default '-': getLineStyle() then returns '-'.
C16_NoneIsDefaultLineStyle ==
    (lastCall.setter = "setLineStyle" /\ lastCall.arg = NoneValue)
    => cexc = "none" /\ getLineStyle = "-"
====
